---- MODULE Spec2Model ----
(***************************************************************************)
(* TenantSubfolderMiddleware (django_tenants/middleware/subfolder.py):     *)
(* resolution of the tenant of a request from the subfolder prefix of its  *)
(* path, and the effects on the request, the database connection, the      *)
(* active urlconf and the URL caches.                                      *)
(*                                                                         *)
(* Python strings are sequences of one-character strings; None, where a    *)
(* string is expected, is the sequence Null.                               *)
(***************************************************************************)
EXTENDS Naturals, Sequences, FiniteSets

VARIABLES settings, db, mw, pc, request, connection, activeUrlconf,
          raised, calls, lookups

vars == <<settings, db, mw, pc, request, connection, activeUrlconf,
          raised, calls, lookups>>

----------------------------------------------------------------------------
(* Bounds of the model *)

MaxPrefixLen == 2
MaxPathLen == 4

PrefixChars == {"/", "p"}
PathChars == {"/", "p", "a"}
DomainNames == {<<"a">>}
TenantSchemas == {"t1", "t2"}

Null == <<"None">>
PublicSchemaName == "public"

SeqsUpTo(S, n) == UNION {[1..k -> S] : k \in 0..n}

----------------------------------------------------------------------------
(* Python string operations used by the middleware *)

\* s.startswith(p)
StartsWith(s, p) == Len(p) <= Len(s) /\ SubSeq(s, 1, Len(p)) = p

\* s[n:]
DropFirst(s, n) == SubSeq(s, n + 1, Len(s))

\* s.find(c) + 1: position of the first c in s, 0 when there is none
RECURSIVE FindFrom(_, _, _)
FindFrom(s, c, i) ==
    IF i > Len(s) THEN 0
    ELSE IF s[i] = c THEN i
    ELSE FindFrom(s, c, i + 1)

\* s.split(c): always at least one chunk, chunks may be empty
RECURSIVE Split(_, _)
Split(s, c) ==
    LET i == FindFrom(s, c, 1)
    IN IF i = 0 THEN <<s>>
       ELSE <<SubSeq(s, 1, i - 1)>> \o Split(DropFirst(s, i), c)

\* s.lstrip(chars), s.rstrip(chars), s.strip(chars)
RECURSIVE LStrip(_, _)
LStrip(s, chars) ==
    IF s # <<>> /\ s[1] \in chars THEN LStrip(DropFirst(s, 1), chars) ELSE s

RECURSIVE RStrip(_, _)
RStrip(s, chars) ==
    IF s # <<>> /\ s[Len(s)] \in chars
    THEN RStrip(SubSeq(s, 1, Len(s) - 1), chars) ELSE s

Strip(s, chars) == RStrip(LStrip(s, chars), chars)

----------------------------------------------------------------------------
(* Framework objects *)

\* a row of the tenant model, as a fresh Python object
TenantObject(schema) ==
    [schema_name |-> schema, domain_subfolder |-> Null, domain_url |-> Null,
     kind |-> "model"]

\* django_tenants FakeTenant(schema_name=public)
FakeTenant ==
    [schema_name |-> PublicSchemaName, domain_subfolder |-> Null,
     domain_url |-> Null, kind |-> "fake"]

\* placeholder of the absent attribute request.tenant
NoTenant ==
    [schema_name |-> "", domain_subfolder |-> Null, domain_url |-> Null,
     kind |-> "unset"]

NoUrlconf == [kind |-> "None", pattern |-> <<>>, include |-> "None"]
ModuleUrlconf(name) == [kind |-> "module", pattern |-> <<>>, include |-> name]

\* class TenantUrlConf(ModuleType) with its single path(..., include(urlconf))
TenantUrlConf(subfolder_prefix, domain_subfolder, urlconf) ==
    [kind |-> "TenantUrlConf",
     pattern |-> subfolder_prefix \o <<"/">> \o domain_subfolder \o <<"/">>,
     include |-> urlconf]

\* truth value of "if urlconf:"
Truthy(urlconf) == urlconf.kind # "None"

\* django_tenants.utils.get_subfolder_prefix
get_subfolder_prefix(s) ==
    LET raw == IF s.TENANT_SUBFOLDER_PREFIX = Null
               THEN <<>> ELSE s.TENANT_SUBFOLDER_PREFIX
    IN Strip(raw, {"/", " "})

\* django_tenants.utils.has_multi_type_tenants
has_multi_type_tenants(s) == s.routing = "multi_type"

\* tenant.get_tenant_type() and get_tenant_types()[type]['URLCONF']
get_tenant_type(tenant) == tenant.schema_name
TypeUrlconf(type) ==
    CASE type = "t1" -> "urls_t1"
      [] type = "t2" -> "urls_t2"
      [] OTHER -> "urls_public"

\* TenantMainMiddleware.hostname_from_request:
\* remove_www(request.get_host().split(':')[0])
hostname_from_request(req) ==
    IF req.host.labels # <<>> /\ req.host.labels[1] = "www"
    THEN DropFirst(req.host.labels, 1) ELSE req.host.labels

\* connection.set_schema_to_public()
set_schema_to_public(conn) ==
    [tenant |-> FakeTenant, schema_name |-> PublicSchemaName]

\* connection.set_tenant(tenant)
set_tenant(conn, tenant) ==
    [tenant |-> tenant, schema_name |-> tenant.schema_name]

\* tenant_model.objects.get(schema_name=...)
TenantExists(d, schema) == schema \in d.tenants

\* TenantMainMiddleware.get_tenant:
\* domain_model.objects.select_related('tenant').get(domain=hostname).tenant
DomainExists(d, hostname) == hostname \in DOMAIN d.domains
get_tenant(d, hostname) == TenantObject(d.domains[hostname])

\* TenantMainMiddleware.setup_url_routing(request, force_public)
setup_url_routing(s, req, active, force_public) ==
    IF has_multi_type_tenants(s)
    THEN LET u == IF ~req.hasTenant
                     \/ force_public
                     \/ req.tenant.schema_name = PublicSchemaName
                  THEN ModuleUrlconf("urls_public")
                  ELSE ModuleUrlconf(TypeUrlconf(get_tenant_type(req.tenant)))
         IN [request |-> [req EXCEPT !.urlconf = u], activeUrlconf |-> u]
    ELSE IF s.routing = "public_urlconf"
            /\ (force_public \/ req.tenant.schema_name = PublicSchemaName)
         THEN [request |->
                   [req EXCEPT !.urlconf = ModuleUrlconf("PUBLIC_SCHEMA_URLCONF")],
               activeUrlconf |-> active]
         ELSE [request |-> req, activeUrlconf |-> active]

----------------------------------------------------------------------------
(* TenantSubfolderMiddleware *)

\* the module's namespace after its imports: ModuleType is not among them
ModuleTypeImported == FALSE

\* variant: the check of __init__ left out
PrefixMissing_unchecked(subfolder_prefix) == FALSE

\* the check of __init__: "if not get_subfolder_prefix()"
PrefixMissing(subfolder_prefix) == subfolder_prefix = <<>>

\* TenantSubfolderMiddleware.__init__
TenantSubfolderMiddleware_init(s) ==
    IF PrefixMissing(get_subfolder_prefix(s))
    THEN "ImproperlyConfigured" ELSE "ready"

\* TenantSubfolderMiddleware.get_tenant_urlconf
get_tenant_urlconf(s, tenant) ==
    LET urlconf == IF has_multi_type_tenants(s)
                   THEN TypeUrlconf(get_tenant_type(tenant))
                   ELSE "ROOT_URLCONF"
        subfolder_prefix == get_subfolder_prefix(s)
    IN IF ModuleTypeImported
       THEN [raised |-> "none",
             value |-> TenantUrlConf(subfolder_prefix,
                                     tenant.domain_subfolder, urlconf)]
       ELSE [raised |-> "NameError", value |-> NoUrlconf]

\* variant: no_tenant_found returns instead of raising
no_tenant_found_returns(req, hostname) == "none"

\* TenantSubfolderMiddleware.no_tenant_found: the exception it raises
no_tenant_found(req, hostname) == "Http404"

\* variant: the short circuit left out
hasattr_tenant_ignored(req) == FALSE

\* hasattr(request, "tenant")
hasattr_tenant(req) == req.hasTenant

\* "/{}/".format(get_subfolder_prefix())
SubfolderPrefixPath(s) == <<"/">> \o get_subfolder_prefix(s) \o <<"/">>

\* variant: the prefix tested without its trailing slash
IsPublicPath_noslash(path, subfolder_prefix_path) ==
    ~StartsWith(path, SubSeq(subfolder_prefix_path, 1,
                             Len(subfolder_prefix_path) - 1))

\* not request.path.startswith(subfolder_prefix_path)
IsPublicPath(path, subfolder_prefix_path) ==
    ~StartsWith(path, subfolder_prefix_path)

\* request.path[len(subfolder_prefix_path):].split("/")[0]
TenantSubfolder(path, subfolder_prefix_path) ==
    Split(DropFirst(path, Len(subfolder_prefix_path)), "/")[1]

\* variant: connection.set_tenant left out
InstallTenant_noset(e, tenant, urlconf, hostname) ==
    LET t == [tenant EXCEPT !.domain_url = hostname]
        req1 == [e.request EXCEPT !.hasTenant = TRUE, !.tenant = t]
        calls1 == e.calls \o <<"clear_url_caches">>
    IN IF Truthy(urlconf)
       THEN [e EXCEPT !.request = [req1 EXCEPT !.urlconf = urlconf],
                      !.activeUrlconf = urlconf,
                      !.calls = calls1 \o <<"request.urlconf", "set_urlconf">>]
       ELSE [e EXCEPT !.request = req1,
                      !.calls = calls1]

\* the tail of process_request, shared by both branches:
\* domain_url, request.tenant, set_tenant, clear_url_caches, urlconf
InstallTenant(e, tenant, urlconf, hostname) ==
    LET t == [tenant EXCEPT !.domain_url = hostname]
        req1 == [e.request EXCEPT !.hasTenant = TRUE, !.tenant = t]
        conn1 == set_tenant(e.connection, req1.tenant)
        calls1 == e.calls \o <<"connection.set_tenant", "clear_url_caches">>
    IN IF Truthy(urlconf)
       THEN [e EXCEPT !.request = [req1 EXCEPT !.urlconf = urlconf],
                      !.connection = conn1,
                      !.activeUrlconf = urlconf,
                      !.calls = calls1 \o <<"request.urlconf", "set_urlconf">>]
       ELSE [e EXCEPT !.request = req1,
                      !.connection = conn1,
                      !.calls = calls1]

\* the branch "We are in the public tenant"
PublicBranch(s, d, e, hostname) ==
    LET found == TenantExists(d, PublicSchemaName)
        e1 == [e EXCEPT !.lookups = @ \o <<[model |-> "tenant",
                                            key |-> <<PublicSchemaName>>,
                                            found |-> found]>>]
    IN IF ~found
       THEN [e1 EXCEPT !.raised = "Http404"]
       ELSE LET r == setup_url_routing(s, e1.request, e1.activeUrlconf, TRUE)
                e2 == [e1 EXCEPT !.request = r.request,
                                 !.activeUrlconf = r.activeUrlconf,
                                 !.calls = @ \o <<"setup_url_routing(force_public=True)">>]
            IN InstallTenant(e2, TenantObject(PublicSchemaName), NoUrlconf,
                             hostname)

\* the branch "We are in a specific tenant"
TenantBranch(s, d, e, hostname, subfolder_prefix_path) ==
    LET tenant_subfolder == TenantSubfolder(e.request.path,
                                            subfolder_prefix_path)
        found == DomainExists(d, tenant_subfolder)
        e1 == [e EXCEPT !.lookups = @ \o <<[model |-> "domain",
                                            key |-> tenant_subfolder,
                                            found |-> found]>>]
    IN IF ~found
       THEN [e1 EXCEPT !.raised = no_tenant_found(e1.request, hostname)]
       ELSE LET tenant == [get_tenant(d, tenant_subfolder)
                             EXCEPT !.domain_subfolder = tenant_subfolder]
                u == get_tenant_urlconf(s, tenant)
            IN IF u.raised # "none"
               THEN [e1 EXCEPT !.raised = u.raised]
               ELSE InstallTenant(e1, tenant, u.value, hostname)

\* TenantSubfolderMiddleware.process_request
process_request(s, d, e) ==
    IF hasattr_tenant(e.request)
    THEN e
    ELSE LET e1 == [e EXCEPT !.connection = set_schema_to_public(@),
                             !.calls = @ \o <<"connection.set_schema_to_public">>]
             hostname == hostname_from_request(e1.request)
             subfolder_prefix_path == SubfolderPrefixPath(s)
         IN IF IsPublicPath(e1.request.path, subfolder_prefix_path)
            THEN PublicBranch(s, d, e1, hostname)
            ELSE TenantBranch(s, d, e1, hostname, subfolder_prefix_path)

----------------------------------------------------------------------------
(* The state machine: one middleware instance, one connection, requests    *)
(* handled one after the other                                             *)

Settings ==
    [TENANT_SUBFOLDER_PREFIX : {Null} \cup SeqsUpTo(PrefixChars, MaxPrefixLen),
     routing : {"plain", "public_urlconf", "multi_type"}]

Databases ==
    {[tenants |-> TenantSchemas \cup pub, domains |-> dom] :
        pub \in SUBSET {PublicSchemaName},
        dom \in UNION {[D -> TenantSchemas] : D \in SUBSET DomainNames}}

Hosts == {[labels |-> <<"h">>], [labels |-> <<"www", "h">>]}

Paths == {<<"/">> \o rest : rest \in SeqsUpTo(PathChars, MaxPathLen)}

NoRequest ==
    [path |-> <<>>, host |-> [labels |-> <<>>], hasTenant |-> FALSE,
     tenant |-> NoTenant, urlconf |-> NoUrlconf]

Init ==
    /\ settings \in Settings
    /\ db \in Databases
    /\ mw = "none"
    /\ pc = "idle"
    /\ request = NoRequest
    /\ connection = set_schema_to_public([tenant |-> NoTenant, schema_name |-> ""])
    /\ activeUrlconf = NoUrlconf
    /\ raised = "none"
    /\ calls = <<>>
    /\ lookups = <<>>

\* the framework builds the middleware once
Construct ==
    /\ mw = "none"
    /\ mw' = TenantSubfolderMiddleware_init(settings)
    /\ UNCHANGED <<settings, db, pc, request, connection, activeUrlconf,
                   raised, calls, lookups>>

\* a request enters the middleware chain
NewRequest ==
    /\ mw = "ready"
    /\ pc = "idle"
    /\ \E p \in Paths, h \in Hosts :
          request' = [path |-> p, host |-> h, hasTenant |-> FALSE,
                      tenant |-> NoTenant, urlconf |-> NoUrlconf]
    /\ pc' = "pending"
    /\ UNCHANGED <<settings, db, mw, connection, activeUrlconf,
                   raised, calls, lookups>>

\* the request cycle ends (response or exception); the request object is
\* dropped, the connection and the active urlconf stay with the thread
FinishRequest ==
    /\ pc = "done"
    /\ pc' = "idle"
    /\ request' = NoRequest
    /\ raised' = "none"
    /\ calls' = <<>>
    /\ lookups' = <<>>
    /\ UNCHANGED <<settings, db, mw, connection, activeUrlconf>>

\* another tenant-resolving middleware, placed before this one, resolves the
\* tenant of the request (TenantMainMiddleware.process_request)
OtherMiddleware ==
    /\ pc = "pending"
    /\ ~request.hasTenant
    /\ \E schema \in db.tenants :
          LET t == [TenantObject(schema) EXCEPT
                        !.domain_url = hostname_from_request(request)]
              req1 == [request EXCEPT !.hasTenant = TRUE, !.tenant = t]
              r == setup_url_routing(settings, req1, activeUrlconf, FALSE)
          IN /\ request' = r.request
             /\ activeUrlconf' = r.activeUrlconf
             /\ connection' = set_tenant(connection, t)
    /\ UNCHANGED <<settings, db, mw, pc, raised, calls, lookups>>

\* the framework calls process_request on the pending request
ProcessRequest ==
    /\ pc = "pending"
    /\ LET e == process_request(settings, db,
                    [raised |-> "none", request |-> request,
                     connection |-> connection,
                     activeUrlconf |-> activeUrlconf,
                     calls |-> <<>>, lookups |-> <<>>])
       IN /\ request' = e.request
          /\ connection' = e.connection
          /\ activeUrlconf' = e.activeUrlconf
          /\ raised' = e.raised
          /\ calls' = e.calls
          /\ lookups' = e.lookups
    /\ pc' = "done"
    /\ UNCHANGED <<settings, db, mw>>

Next ==
    Construct \/ NewRequest \/ OtherMiddleware \/ ProcessRequest \/ FinishRequest

Spec == Init /\ [][Next]_vars

----------------------------------------------------------------------------
(* Vocabulary of the properties *)

\* a step in which process_request handles the pending request
Handled == pc = "pending" /\ pc' = "done"

\* process_request ran past its short circuit on the request now done
Resolving == pc = "done" /\ calls # <<>>

Count(log, name) == Cardinality({i \in DOMAIN log : log[i] = name})
Position(log, name) == CHOOSE i \in DOMAIN log : log[i] = name

\* "/<prefix>/" for the configured prefix
PrefixPath == <<"/">> \o get_subfolder_prefix(settings) \o <<"/">>

OnTenantPath(path) == StartsWith(path, PrefixPath)

\* the text of path after "/<prefix>/" up to the next "/"
FirstSegment(path) ==
    LET rest == DropFirst(path, Len(PrefixPath))
    IN CHOOSE seg \in {SubSeq(rest, 1, k) : k \in 0..Len(rest)} :
          /\ \A i \in DOMAIN seg : seg[i] # "/"
          /\ Len(seg) = Len(rest) \/ rest[Len(seg) + 1] = "/"

HasPublicTenant == PublicSchemaName \in db.tenants
HasDomain(name) == name \in DOMAIN db.domains

\* the lookup the request's path leads to finds a row
LookupSucceeds(path) ==
    IF OnTenantPath(path) THEN HasDomain(FirstSegment(path))
    ELSE HasPublicTenant

----------------------------------------------------------------------------
(* C1 *)

\* C1 (lookup half): on a path under "/<prefix>/" of a request without
\* tenant, the only lookup is a domain lookup keyed by the first segment
C1_LookupBySegment ==
    [][(Handled /\ ~request.hasTenant /\ OnTenantPath(request.path)) =>
         lookups' = <<[model |-> "domain",
                       key |-> FirstSegment(request.path),
                       found |-> HasDomain(FirstSegment(request.path))]>>]_vars

\* C1: on a path under "/<prefix>/" of a request without tenant, the lookup
\* is keyed by the first segment and, when it succeeds, request.tenant is the
\* tenant of that segment with domain_subfolder the segment and domain_url
\* the request's hostname
C1_SubfolderTenantSet ==
    [][(Handled /\ ~request.hasTenant /\ OnTenantPath(request.path)) =>
         LET seg == FirstSegment(request.path)
         IN /\ lookups' = <<[model |-> "domain", key |-> seg,
                             found |-> HasDomain(seg)]>>
            /\ HasDomain(seg) =>
                 /\ request'.hasTenant
                 /\ request'.tenant =
                      [schema_name |-> db.domains[seg],
                       domain_subfolder |-> seg,
                       domain_url |-> hostname_from_request(request),
                       kind |-> "model"]]_vars

----------------------------------------------------------------------------
(* C2 *)

\* what process_request does on the public path when it selects the public
\* tenant
PublicTenantSelected ==
    /\ raised' = "none"
    /\ lookups' = <<[model |-> "tenant", key |-> <<PublicSchemaName>>,
                     found |-> TRUE]>>
    /\ request'.hasTenant
    /\ request'.tenant =
         [schema_name |-> PublicSchemaName, domain_subfolder |-> Null,
          domain_url |-> hostname_from_request(request), kind |-> "model"]
    /\ Count(calls', "setup_url_routing(force_public=True)") = 1

\* C2 as stated: every request without tenant whose path is not under
\* "/<prefix>/" gets the public tenant as request.tenant, with
\* setup_url_routing(force_public=True) called and no lookup by subfolder
C2_PublicTenantAlways ==
    [][(Handled /\ ~request.hasTenant /\ ~OnTenantPath(request.path)) =>
         PublicTenantSelected]_vars

\* C2 amended: the same, for the requests handled while a public tenant
\* exists; the tenant is looked up by the public schema name only
C2_PublicTenantWhenExists ==
    [][(Handled /\ ~request.hasTenant /\ ~OnTenantPath(request.path)
          /\ HasPublicTenant) =>
         PublicTenantSelected]_vars

\* C2 witness: a path that starts with "/<prefix>" but not with "/<prefix>/"
\* was given the public tenant although a domain row exists
C2_Witness ==
    /\ Resolving
    /\ raised = "none"
    /\ ~OnTenantPath(request.path)
    /\ StartsWith(request.path, <<"/">> \o get_subfolder_prefix(settings))
    /\ DOMAIN db.domains = DomainNames
    /\ request.hasTenant
    /\ request.tenant.schema_name = PublicSchemaName
    /\ request.tenant.kind = "model"

----------------------------------------------------------------------------
(* C3 *)

\* C3: when the lookup of a request without tenant fails, process_request
\* raises Http404, request.tenant stays unset, set_tenant and
\* clear_url_caches are not called, and neither request.urlconf nor the
\* active urlconf is assigned
C3_NotFound ==
    [][(Handled /\ ~request.hasTenant /\ ~LookupSucceeds(request.path)) =>
         /\ raised' = "Http404"
         /\ ~request'.hasTenant
         /\ request'.tenant = NoTenant
         /\ Count(calls', "connection.set_tenant") = 0
         /\ Count(calls', "clear_url_caches") = 0
         /\ Count(calls', "request.urlconf") = 0
         /\ Count(calls', "set_urlconf") = 0
         /\ Count(calls', "setup_url_routing(force_public=True)") = 0
         /\ request'.urlconf = request.urlconf
         /\ activeUrlconf' = activeUrlconf]_vars

\* C3 witness: a tenant path whose subfolder has no domain row ended in
\* Http404 while a public tenant exists
C3_Witness ==
    /\ Resolving
    /\ raised = "Http404"
    /\ OnTenantPath(request.path)
    /\ ~HasDomain(FirstSegment(request.path))
    /\ HasPublicTenant
    /\ ~request.hasTenant

----------------------------------------------------------------------------
(* C4 *)

\* C4: a request that already has a tenant is returned untouched: request,
\* connection, active urlconf unchanged, no call made, no lookup performed
C4_ShortCircuit ==
    [][(Handled /\ request.hasTenant) =>
         /\ request' = request
         /\ connection' = connection
         /\ activeUrlconf' = activeUrlconf
         /\ calls' = <<>>
         /\ lookups' = <<>>
         /\ raised' = "none"]_vars

\* C4 witness: a request on a tenant path, given tenant t1 by another
\* middleware, is done with the connection still on t1
C4_Witness ==
    /\ pc = "done"
    /\ request.hasTenant
    /\ calls = <<>>
    /\ OnTenantPath(request.path)
    /\ request.tenant.schema_name = "t1"
    /\ connection.tenant = request.tenant
    /\ connection.schema_name = "t1"

----------------------------------------------------------------------------
(* C5 *)

\* C5: with TENANT_SUBFOLDER_PREFIX absent or empty the constructor raises
\* ImproperlyConfigured, no request is handled by such an instance, and the
\* prefix path tested by process_request is never "//"
C5_PrefixRequired ==
    /\ (mw # "none" /\ settings.TENANT_SUBFOLDER_PREFIX \in {Null, <<>>})
          => mw = "ImproperlyConfigured"
    /\ pc # "idle" => settings.TENANT_SUBFOLDER_PREFIX \notin {Null, <<>>}
    /\ pc # "idle" => PrefixPath # <<"/", "/">>

\* C5 witness: construction failed under an empty prefix
C5_Witness ==
    /\ mw = "ImproperlyConfigured"
    /\ settings.TENANT_SUBFOLDER_PREFIX = <<>>

----------------------------------------------------------------------------
(* C6 *)

\* C6: whenever process_request completes normally on a request that had no
\* tenant, the connection's tenant is that request's request.tenant
C6_ConnectionFollowsRequest ==
    [][(Handled /\ ~request.hasTenant /\ raised' = "none") =>
         /\ request'.hasTenant
         /\ connection'.tenant = request'.tenant
         /\ connection'.schema_name = request'.tenant.schema_name]_vars

\* C6 witness: a request resolved normally, its tenant (with this
\* request's hostname) on the connection
C6_Witness ==
    /\ Resolving
    /\ raised = "none"
    /\ request.hasTenant
    /\ request.tenant.kind = "model"
    /\ connection.tenant = request.tenant
    /\ connection.tenant.domain_url = <<"h">>
    /\ request.host.labels = <<"www", "h">>

----------------------------------------------------------------------------
(* C7 *)

\* C7: a tenant path whose lookup succeeds gets request.urlconf and the
\* active urlconf set to the tenant urlconf with the single pattern
\* "<prefix>/<subfolder>/" including the tenant's base urlconf; on the public
\* path process_request itself assigns neither
C7_TenantRouting ==
    [][(Handled /\ ~request.hasTenant) =>
         IF OnTenantPath(request.path)
         THEN LET seg == FirstSegment(request.path)
              IN HasDomain(seg) =>
                   /\ request'.urlconf =
                        [kind |-> "TenantUrlConf",
                         pattern |-> get_subfolder_prefix(settings)
                                       \o <<"/">> \o seg \o <<"/">>,
                         include |-> IF settings.routing = "multi_type"
                                     THEN TypeUrlconf(db.domains[seg])
                                     ELSE "ROOT_URLCONF"]
                   /\ activeUrlconf' = request'.urlconf
                   /\ Count(calls', "request.urlconf") = 1
                   /\ Count(calls', "set_urlconf") = 1
         ELSE /\ Count(calls', "request.urlconf") = 0
              /\ Count(calls', "set_urlconf") = 0]_vars

\* C7 (public half): on the public path process_request itself assigns
\* neither request.urlconf nor the active urlconf
C7_PublicPathAssignsNothing ==
    [][(Handled /\ ~request.hasTenant /\ ~OnTenantPath(request.path)) =>
         /\ Count(calls', "request.urlconf") = 0
         /\ Count(calls', "set_urlconf") = 0]_vars

----------------------------------------------------------------------------
(* C8 *)

\* C8: every process_request whose lookup finds a tenant, public or by
\* subfolder, clears the URL caches exactly once, after
\* connection.set_tenant and before set_urlconf
C8_CachesClearedOnce ==
    [][(Handled /\ ~request.hasTenant /\ LookupSucceeds(request.path)) =>
         /\ Count(calls', "clear_url_caches") = 1
         /\ Count(calls', "connection.set_tenant") = 1
         /\ Position(calls', "connection.set_tenant")
              < Position(calls', "clear_url_caches")
         /\ \A i \in DOMAIN calls' :
              calls'[i] = "set_urlconf"
                => Position(calls', "clear_url_caches") < i]_vars

====
